---- MODULE Spec2Model ----
(***************************************************************************)
(* A model of the caching, admission and batch layer of ps-mcp:            *)
(*   utils/performance.py  ImageCache, ResourceManager, BatchProcessor     *)
(*   tools/advanced.py     batch_resize                                    *)
(* Each component has its own specification over its own variables; the    *)
(* variables of the other components stay at their initial values.         *)
(***************************************************************************)
EXTENDS Integers, Sequences, FiniteSets, TLC

(***************************************************************************)
(* Bounds of the model.                                                    *)
(***************************************************************************)
\* ImageCache(max_size_mb): the capacity the cache is constructed with, in bytes.
CacheCapacity == 3
\* The readings of time.time() range over 0..MaxTime.
MaxTime == 1
\* The number of concurrent callers of the ResourceManager beyond max_tasks.
ExtraCallers == 1
\* The largest number of tasks handed to one process_batch call.
MaxBatch == 3
\* BatchProcessor(max_workers): the size of the executor's thread pool.
MaxWorkers == 2
\* The largest number of image sources in one batch_resize request.
MaxSources == 3
\* The largest number of record_operation calls on one PerformanceMonitor.
MaxOps == 3
\* The largest number of decorated calls recorded on one PerformanceMonitor.
MaxCalls == 2
\* The number of threads that call into a shared object at the same time.
MaxThreads == 2
\* The number of get and put calls the threads make on the shared cache.
MaxCacheCalls == 3
\* The most suspensions of a coroutine given to process_with_timeout, the
\* longest timeout and the longest time followed, in clock ticks.
MaxWork == 3
MaxTimeout == 2
MaxElapsed == 4
\* The BatchProcessor instances at work at the same time, and the most
\* tasks in one batch.
MaxProcessors == 2
MaxElements == 5
\* The release_task_slot calls made by callers that hold no slot.
MaxUnmatched == 2

(***************************************************************************)
(* State.                                                                  *)
(***************************************************************************)
VARIABLES
    \* ImageCache
    cache,          \* ImageCache.cache: key -> [result, size]
    access_times,   \* ImageCache.access_times: insertion-ordered <<[key, t]>>
    current_size,   \* ImageCache.current_size
    enabled,        \* ImageCache.enabled
    now,            \* the reading of time.time()
    stored_by,      \* history: key -> the request whose put wrote the entry
    last,           \* history: the last call on the cache and what it did
    \* ResourceManager
    active_tasks,   \* ResourceManager.active_tasks
    sem_value,      \* task_semaphore._value: the free permits
    sem_waiters,    \* task_semaphore._waiters: FIFO of [caller, done]
    rm_pc,          \* where each caller is: "idle", "waiting", "holding"
    rm_resumed,     \* history: a suspended caller has obtained a slot
    rm_unmatched,   \* history: for each release without a slot, whether active_tasks was positive
    \* BatchProcessor.process_batch
    tasks,          \* the tasks of the call: what each does when it runs
    progress_callback, \* whether the call has a progress_callback
    futures,        \* the state of each submitted future, by index
    results,        \* the outcomes in the order as_completed yielded them
    completed,      \* the local counter completed
    progress,       \* the (completed, total) pairs given to progress_callback
    batch_pc,       \* where process_batch is
    batch_return,   \* what process_batch returned
    \* batch_resize
    arguments,      \* the arguments of the batch_resize call
    response,       \* the JSON value batch_resize returned
    submitted,      \* the number of executor.submit calls batch_resize made
    \* PerformanceMonitor
    metrics,        \* PerformanceMonitor.metrics
    start_time,     \* PerformanceMonitor.start_time
    recorded,       \* history: the record_operation calls on this monitor
    stats,          \* what the last call returned, when it was a get_stats
    resets,         \* history: the reset_performance_stats calls since the last
                    \* recorded operation (counted up to 2)
    cleared,        \* history: the operations and the cache entries that the
                    \* first of these resets discarded
    \* The tools
    tool_call,      \* the tool called last and its arguments
    tool_return,    \* what the coroutine of tools/*.py returned or raised
    mcp_return,     \* what the tool function of main.py returned or raised
    \* Threads inside PerformanceMonitor.record_operation
    thr_pc,         \* the source line each thread is at ("41r": about to read
                    \* for the += of line 41, "41w": about to write), or "idle"
    thr_args,       \* the arguments of each thread's call
    thr_tmp,        \* the value each thread has read for its +=
    \* Threads inside ImageCache.get and ImageCache.put
    ct_pc,          \* the source line each thread is at, or "idle"
    ct_local,       \* the local variables of each thread's call
    ct_calls,       \* the number of calls made so far
    ct_error,       \* history: the exception a call has failed with, if any
    \* process_with_timeout
    wf_pc,          \* wait_for: "none", "waiting", "cancelling", "returned", "TimeoutError"
    wf_timeout,     \* the timeout of the call
    wf_elapsed,     \* the time since the call
    op_pc,          \* the wrapped coroutine: "none", "created", "running", "done", "cancelled"
    op_left,        \* the suspensions the coroutine still has before it returns
    op_cancel,      \* the cancellation of the coroutine's task: "none", "requested", "delivered"
    \* BatchProcessor instances, each with its own executor
    bp_pc,          \* each instance's process_batch: "idle" or "collect"
    bp_queued,      \* the tasks of each instance waiting in its executor
    bp_running,     \* the tasks of each instance running in a worker thread
    bp_finished,    \* the tasks of each instance's batch that are done
    \* performance_tracking
    tracked         \* history: what happened in the last decorated call

cacheVars == << cache, access_times, current_size, enabled, now, stored_by, last >>
rmVars == << active_tasks, sem_value, sem_waiters, rm_pc, rm_resumed, rm_unmatched >>
batchVars == << tasks, progress_callback, futures, results, completed, progress,
                batch_pc, batch_return >>
resizeVars == << arguments, response, submitted >>
monVars == << metrics, start_time, recorded, stats, resets, cleared >>
toolVars == << tool_call, tool_return, mcp_return >>
\* The components other than the cache, the manager, process_batch and batch_resize.
thrVars == << thr_pc, thr_args, thr_tmp >>
ctVars == << ct_pc, ct_local, ct_calls, ct_error >>
toVars == << wf_pc, wf_timeout, wf_elapsed, op_pc, op_left, op_cancel >>
bpVars == << bp_pc, bp_queued, bp_running, bp_finished >>
extVars == << monVars, toolVars, thrVars, ctVars, toVars, bpVars, tracked >>
\* For each of these components, the others.
notMon == << toolVars, ctVars, toVars, bpVars, tracked >>
notTool == << monVars, thrVars, ctVars, toVars, bpVars, tracked >>
notCacheThreads == << monVars, toolVars, thrVars, toVars, bpVars, tracked >>
notTimeout == << monVars, toolVars, thrVars, ctVars, bpVars, tracked >>
notPools == << monVars, toolVars, thrVars, ctVars, toVars, tracked >>
vars == << cacheVars, rmVars, batchVars, resizeVars, extVars >>

(***************************************************************************)
(* Values.                                                                 *)
(***************************************************************************)
\* config.ENABLE_CACHE: assigned twice, the later assignment (True) is the
\* value the import sees.
ENABLE_CACHE == TRUE

\* A payload handed to put: a str, or some other object.
StrResult(s) == [is_str |-> TRUE, text |-> s]
ObjResult == [is_str |-> FALSE, text |-> "obj"]
Results == {StrResult("x"), StrResult("yy"), ObjResult}
\* Python's None where a payload is expected (what get returns on a miss).
None == [is_str |-> FALSE, text |-> "None"]

\* The optional result_image of put: None (absent), or a PIL image with its
\* width, height and number of bands.
NoImage == [present |-> FALSE, width |-> 0, height |-> 0, bands |-> 0]
Images == {NoImage, [present |-> TRUE, width |-> 2, height |-> 1, bands |-> 2]}

\* The (result, result_image) pairs put is called with: str payloads of two
\* lengths and a payload that is no str, without an image, and one with an image.
PutArgs ==
    { <<r, NoImage>> : r \in Results } \cup
    { <<StrResult("x"), i>> : i \in Images \ {NoImage} }

\* Requests (image_source, operation, params). A params dict is an
\* insertion-ordered sequence of <<key, value>> pairs with distinct keys. The
\* requests cover: the same params in two key orders, params that differ in one
\* value, and sources and operation names with and without a ":".
Req(image_source, operation, params) ==
    [image_source |-> image_source, operation |-> operation, params |-> params]
Requests ==
    { Req("a", "c", << <<"w", 1>>, <<"h", 2>> >>),
      Req("a", "c", << <<"h", 2>>, <<"w", 1>> >>),
      Req("a", "c", << <<"w", 2>>, <<"h", 2>> >>),
      Req("a:b", "c", << >>),
      Req("a", "b:c", << >>) }

\* Python dict equality: the same key/value pairs, whatever the order.
DictItems(params) == { params[i] : i \in 1..Len(params) }
SameRequest(r1, r2) ==
    /\ r1.image_source = r2.image_source
    /\ r1.operation = r2.operation
    /\ DictItems(r1.params) = DictItems(r2.params)

(***************************************************************************)
(* ImageCache._get_cache_key                                               *)
(***************************************************************************)
\* ord() of the characters used as dict keys.
Ord(c) == CASE c = "h" -> 104 [] c = "w" -> 119

\* Insert one item into a list sorted by key (str comparison of the keys).
RECURSIVE InsertByKey(_, _)
InsertByKey(sorted, item) ==
    IF sorted = << >> THEN << item >>
    ELSE IF Ord(item[1]) < Ord(Head(sorted)[1])
         THEN << item >> \o sorted
         ELSE << Head(sorted) >> \o InsertByKey(Tail(sorted), item)

\* sorted(params.items()) as json.dumps(..., sort_keys=True) orders them.
RECURSIVE SortKeys(_)
SortKeys(params) ==
    IF params = << >> THEN << >>
    ELSE InsertByKey(SortKeys(Tail(params)), Head(params))

\* The items of a dict as json.dumps writes them: "k": v joined by ", ".
RECURSIVE JsonItems(_)
JsonItems(items) ==
    IF items = << >> THEN ""
    ELSE "\"" \o Head(items)[1] \o "\": " \o ToString(Head(items)[2])
         \o (IF Tail(items) = << >> THEN "" ELSE ", " \o JsonItems(Tail(items)))

\* json.dumps(params, sort_keys=True)
JsonDumpsSorted(params) == "{" \o JsonItems(SortKeys(params)) \o "}"

\* json.dumps(params): the items in insertion order.
JsonDumpsUnsorted(params) == "{" \o JsonItems(params) \o "}"

\* The key json.dumps without sort_keys would give.
get_cache_key_unsorted(image_source, operation, params) ==
    image_source \o ":" \o operation \o ":" \o JsonDumpsUnsorted(params)

\* The string that is hashed. hashlib.md5(...).hexdigest() is modelled as an
\* injective function of that string, so the key is the string itself.
get_cache_key(image_source, operation, params) ==
    image_source \o ":" \o operation \o ":" \o JsonDumpsSorted(params)

\* The key of each request.
KeyTable == [req \in Requests |->
                get_cache_key(req.image_source, req.operation, req.params)]
KeyOf(req) == KeyTable[req]

\* No request, and the record of no call at all.
NoRequest == [image_source |-> "", operation |-> "", params |-> << >>]
NoCall == [op |-> "init", req |-> NoRequest, returned |-> None,
           evicted |-> {}, kept |-> {}]

max_size_bytes == CacheCapacity

\* dict helpers
DictSet(d, k, v) == [x \in (DOMAIN d) \cup {k} |-> IF x = k THEN v ELSE d[x]]
DictDel(d, k) == [x \in (DOMAIN d) \ {k} |-> d[x]]
EmptyDict == [x \in {} |-> None]

\* access_times[key] = t: an existing key keeps its place, a new one is appended.
HasKey(at, k) == \E i \in 1..Len(at) : at[i].key = k
SetTime(at, k, t) ==
    IF HasKey(at, k)
    THEN [i \in 1..Len(at) |-> IF at[i].key = k THEN [key |-> k, t |-> t] ELSE at[i]]
    ELSE Append(at, [key |-> k, t |-> t])
DelTime(at, k) == SelectSeq(at, LAMBDA e : e.key # k)
TimeOf(at, k) == at[CHOOSE i \in 1..Len(at) : at[i].key = k].t
Times(at) == { at[i].t : i \in 1..Len(at) }

\* ImageCache._estimate_image_size
estimate_image_size(image) == image.width * image.height * image.bands

\* The size put records for an item.
ItemSize(result, result_image) ==
    IF result_image.present
    THEN estimate_image_size(result_image)
    ELSE IF result.is_str THEN Len(result.text) ELSE 1024

CacheInit ==
    /\ cache = EmptyDict
    /\ access_times = << >>
    /\ current_size = 0
    /\ enabled = ENABLE_CACHE
    /\ now = 0
    /\ stored_by = EmptyDict
    /\ last = NoCall

\* ImageCache._cleanup_cache: sorted(self.access_times.items(), key=lambda x: x[1]).
\* Python's sort is stable: equal times keep the dict's insertion order.
RECURSIVE InsertByTime(_, _)
InsertByTime(sorted, item) ==
    IF sorted = << >> THEN << item >>
    ELSE IF item.t < Head(sorted).t
         THEN << item >> \o sorted
         ELSE << Head(sorted) >> \o InsertByTime(Tail(sorted), item)

RECURSIVE SortByTimeFrom(_, _)
SortByTimeFrom(at, n) ==
    IF n = 0 THEN << >>
    ELSE InsertByTime(SortByTimeFrom(at, n - 1), at[n])

RECURSIVE InsertByTimeDesc(_, _)
InsertByTimeDesc(sorted, item) ==
    IF sorted = << >> THEN << item >>
    ELSE IF item.t > Head(sorted).t
         THEN << item >> \o sorted
         ELSE << Head(sorted) >> \o InsertByTimeDesc(Tail(sorted), item)

RECURSIVE SortByTimeDescFrom(_, _)
SortByTimeDescFrom(at, n) ==
    IF n = 0 THEN << >>
    ELSE InsertByTimeDesc(SortByTimeDescFrom(at, n - 1), at[n])

\* Most recently used first (the order reverse=True would give).
SortedItemsDesc(at) == SortByTimeDescFrom(at, Len(at))

\* Least recently used first.
SortedItems(at) == SortByTimeFrom(at, Len(at))

\* The loop of _cleanup_cache over sorted_items, from item i on. st is the
\* cache state [cache, access_times, current_size] plus the list of evicted items.
RECURSIVE CleanupLoop(_, _, _, _)
CleanupLoop(sorted_items, i, required_space, st) ==
    IF i > Len(sorted_items) THEN st
    ELSE IF st.current_size + required_space <= max_size_bytes THEN st
    ELSE LET cache_key == sorted_items[i].key IN
         IF cache_key \in DOMAIN st.cache
         THEN CleanupLoop(sorted_items, i + 1, required_space,
                  [cache |-> DictDel(st.cache, cache_key),
                   access_times |-> DelTime(st.access_times, cache_key),
                   current_size |-> st.current_size - st.cache[cache_key].size,
                   evicted |-> Append(st.evicted, sorted_items[i])])
         ELSE CleanupLoop(sorted_items, i + 1, required_space, st)

\* The sum of the recorded "size" fields of the entries of a cache dict.
RECURSIVE SumSizes(_, _)
SumSizes(c, keys) ==
    IF keys = {} THEN 0
    ELSE LET k == CHOOSE x \in keys : TRUE
         IN c[k].size + SumSizes(c, keys \ {k})

\* _cleanup_cache without the break of its loop: every entry is evicted.
cleanup_cache_all(required_space, st) ==
    [cache |-> EmptyDict,
     access_times |-> << >>,
     current_size |-> st.current_size - SumSizes(st.cache, DOMAIN st.cache),
     evicted |-> st.evicted \o SortedItems(st.access_times)]

\* ImageCache._cleanup_cache(required_space) on the cache state st.
cleanup_cache(required_space, st) ==
    IF ~enabled THEN st
    ELSE CleanupLoop(SortedItems(st.access_times), 1, required_space, st)

\* The cache state put starts from.
CacheState ==
    [cache |-> cache, access_times |-> access_times,
     current_size |-> current_size, evicted |-> << >>]

\* The statements of put on an enabled cache in the state st, at time t: the
\* state they leave, with the items evicted and the access times kept.
\* The entry's "timestamp" field is written and never read: it is left out.
PutOn(st, t, req, result, result_image) ==
    LET cache_key == KeyOf(req)
        item_size == ItemSize(result, result_image)
        cl == IF st.current_size + item_size > max_size_bytes
              THEN cleanup_cache(item_size, st)
              ELSE st
    IN [cache |-> DictSet(cl.cache, cache_key,
                          [result |-> result, size |-> item_size]),
        access_times |-> SetTime(cl.access_times, cache_key, t),
        current_size |-> cl.current_size + item_size,
        evicted |-> cl.evicted,
        kept |-> cl.access_times]

\* The history stored_by after a put of req that left the cache c.
StoredBy(c, req) ==
    [k \in DOMAIN c |-> IF k = KeyOf(req) THEN req ELSE stored_by[k]]

\* ImageCache.put(image_source, operation, params, result, result_image).
put(req, result, result_image) ==
    /\ IF ~enabled
       THEN /\ UNCHANGED << cache, access_times, current_size, stored_by >>
            /\ last' = [op |-> "put", req |-> req, returned |-> None,
                        evicted |-> {}, kept |-> {}]
       ELSE LET st == PutOn(CacheState, now, req, result, result_image)
            IN /\ cache' = st.cache
               /\ access_times' = st.access_times
               /\ current_size' = st.current_size
               /\ stored_by' = StoredBy(st.cache, req)
               /\ last' = [op |-> "put", req |-> req, returned |-> None,
                           evicted |-> Times(st.evicted), kept |-> Times(st.kept)]
    /\ UNCHANGED << enabled, now, rmVars, batchVars, resizeVars, extVars >>

\* get without its test of self.enabled.
get_flag_ignored(req) ==
    /\ LET cache_key == KeyOf(req) IN
       IF cache_key \in DOMAIN cache
       THEN /\ access_times' = SetTime(access_times, cache_key, now)
            /\ last' = [op |-> "get", req |-> req,
                        returned |-> cache[cache_key].result,
                        evicted |-> {}, kept |-> {}]
       ELSE /\ UNCHANGED access_times
            /\ last' = [op |-> "get", req |-> req, returned |-> None,
                        evicted |-> {}, kept |-> {}]
    /\ UNCHANGED << cache, current_size, enabled, now, stored_by >>
    /\ UNCHANGED << rmVars, batchVars, resizeVars, extVars >>

\* ImageCache.get(image_source, operation, params)
get(req) ==
    /\ IF ~enabled
       THEN /\ UNCHANGED access_times
            /\ last' = [op |-> "get", req |-> req, returned |-> None,
                        evicted |-> {}, kept |-> {}]
       ELSE LET cache_key == KeyOf(req) IN
            IF cache_key \in DOMAIN cache
            THEN /\ access_times' = SetTime(access_times, cache_key, now)
                 /\ last' = [op |-> "get", req |-> req,
                             returned |-> cache[cache_key].result,
                             evicted |-> {}, kept |-> {}]
            ELSE /\ UNCHANGED access_times
                 /\ last' = [op |-> "get", req |-> req, returned |-> None,
                             evicted |-> {}, kept |-> {}]
    /\ UNCHANGED << cache, current_size, enabled, now, stored_by >>
    /\ UNCHANGED << rmVars, batchVars, resizeVars, extVars >>

\* clear without its last statement.
clear_size_kept ==
    /\ cache' = EmptyDict
    /\ access_times' = << >>
    /\ stored_by' = EmptyDict
    /\ last' = [op |-> "clear", req |-> NoRequest, returned |-> None,
                evicted |-> {}, kept |-> {}]
    /\ UNCHANGED << current_size, enabled, now, rmVars, batchVars, resizeVars, extVars >>

\* ImageCache.clear()
clear ==
    /\ cache' = EmptyDict
    /\ access_times' = << >>
    /\ current_size' = 0
    /\ stored_by' = EmptyDict
    /\ last' = [op |-> "clear", req |-> NoRequest, returned |-> None,
                evicted |-> {}, kept |-> {}]
    /\ UNCHANGED << enabled, now, rmVars, batchVars, resizeVars, extVars >>

\* time.time() moves on between two calls.
Tick ==
    /\ now < MaxTime
    /\ now' = now + 1
    /\ UNCHANGED << cache, access_times, current_size, enabled, stored_by, last >>
    /\ UNCHANGED << rmVars, batchVars, resizeVars, extVars >>

Put == \E req \in Requests, args \in PutArgs : put(req, args[1], args[2])
Get == \E req \in Requests : get(req)

CacheNext == Put \/ Get \/ clear \/ Tick

\* image_cache.enabled = flag: the attribute __init__ sets from
\* config.ENABLE_CACHE is given another value while the cache is in use.
set_enabled(flag) ==
    /\ enabled' = flag
    /\ last' = [op |-> "enabled", req |-> NoRequest, returned |-> None,
                evicted |-> {}, kept |-> {}]
    /\ UNCHANGED << cache, access_times, current_size, now, stored_by,
                    rmVars, batchVars, resizeVars, extVars >>

\* The cache with its flag switched on and off between the calls.
CacheFlagNext == Put \/ Get \/ clear \/ \E flag \in BOOLEAN : set_enabled(flag)

(***************************************************************************)
(* Properties of the cache.                                                *)
(***************************************************************************)
\* C1: in every state reachable by put, get and clear on an enabled cache,
\* current_size equals the sum of the recorded sizes of the entries in the
\* cache (no entry is counted twice).
CacheSizeAccounting ==
    enabled => current_size = SumSizes(cache, DOMAIN cache)

\* C2: after any sequence of put calls current_size is at most max_size_bytes.
CacheCapacityBound ==
    current_size <= max_size_bytes

\* C22: while the enabled flag is false, put changes neither the entries nor
\* the access times nor current_size, and get returns None for every request,
\* also for keys stored while the cache was enabled.
DisabledCacheIsInert ==
    /\ [](~enabled /\ last.op = "get" => last.returned = None)
    /\ [][(~enabled /\ ~enabled' /\ last'.op \in {"put", "get"}) =>
             UNCHANGED << cache, access_times, current_size >>]_vars

\* On the disabled cache a get of a key that was stored while the cache was
\* enabled has returned None.
DisabledCacheIsInertWitness ==
    /\ ~enabled
    /\ last.op = "get"
    /\ KeyOf(last.req) \in DOMAIN cache
    /\ last.returned = None

\* C23: after clear(), from any reachable cache state, the cache holds no
\* entry and no access time and current_size is 0, and every get returns None
\* until the next put (the only call that adds an entry).
ClearEmptiesCache ==
    /\ last.op = "clear" =>
          /\ cache = EmptyDict
          /\ access_times = << >>
          /\ current_size = 0
    /\ (last.op = "get" /\ cache = EmptyDict) =>
          /\ last.returned = None
          /\ access_times = << >>
          /\ current_size = 0

\* A get on the cleared cache, after time has passed, has returned None.
ClearEmptiesCacheWitness ==
    /\ last.op = "get"
    /\ cache = EmptyDict
    /\ current_size = 0
    /\ last.returned = None
    /\ now > 0

FingerprintDeterminism ==
    (last.op = "get" /\ enabled) =>
        \A k \in DOMAIN cache :
            SameRequest(stored_by[k], last.req) => last.returned = cache[k].result

\* A get has returned the payload stored under the same params in another key order.
FingerprintDeterminismWitness ==
    /\ last.op = "get"
    /\ \E k \in DOMAIN cache :
          /\ SameRequest(stored_by[k], last.req)
          /\ stored_by[k].params # last.req.params
          /\ last.returned = cache[k].result
          /\ last.returned # None

\* C5: get returns none unless the entry it finds was stored by a put with
\* the same source, the same operation and an equal parameter map.
CacheMissOnDifferentRequest ==
    (last.op = "get" /\ last.returned # None) =>
        SameRequest(stored_by[KeyOf(last.req)], last.req)

(***************************************************************************)
(* ResourceManager: the admission controller.                              *)
(***************************************************************************)
\* config.MAX_CONCURRENT_TASKS
MAX_CONCURRENT_TASKS == 4

\* ResourceManager.max_tasks
max_tasks == MAX_CONCURRENT_TASKS

\* The coroutines that use the manager: each calls acquire_task_slot and,
\* once it holds the slot, release_task_slot. There is one more of them than
\* there are slots.
Callers == 1..(max_tasks + ExtraCallers)

RMInit ==
    /\ active_tasks = 0
    /\ sem_value = max_tasks
    /\ sem_waiters = << >>
    /\ rm_pc = [c \in Callers |-> "idle"]
    /\ rm_resumed = FALSE
    /\ rm_unmatched = << >>

\* asyncio.Semaphore.locked(): no permit, or somebody is already waiting.
SemLockedNever(value, waiters) == FALSE
SemLocked(value, waiters) == value = 0 \/ Len(waiters) > 0

\* asyncio.Semaphore._wake_up_next(): the first waiter whose future is not
\* done gets the permit and its future is set.
FirstPendingNone(waiters) == 0
FirstPending(waiters) ==
    IF \E i \in 1..Len(waiters) : ~waiters[i].done
    THEN CHOOSE i \in 1..Len(waiters) :
             /\ ~waiters[i].done
             /\ \A j \in 1..(i - 1) : waiters[j].done
    ELSE 0

\* A release that leaves the permit it hands to a waiter in _value as well.
SemReleaseKept(value, waiters) ==
    LET i == FirstPending(waiters) IN
    IF i = 0
    THEN [value |-> value + 1, waiters |-> waiters]
    ELSE [value |-> value + 1,
          waiters |-> [waiters EXCEPT ![i].done = TRUE]]

\* asyncio.Semaphore.release(): _value += 1, then _wake_up_next().
SemRelease(value, waiters) ==
    LET i == FirstPending(waiters) IN
    IF i = 0
    THEN [value |-> value + 1, waiters |-> waiters]
    ELSE [value |-> value,
          waiters |-> [waiters EXCEPT ![i].done = TRUE]]

\* acquire_task_slot, up to its first suspension: with a free permit and no
\* waiter the semaphore is taken and active_tasks incremented without
\* yielding to the event loop; otherwise the caller queues a future and waits.
acquire_task_slot(c) ==
    /\ rm_pc[c] = "idle"
    /\ IF ~SemLocked(sem_value, sem_waiters)
       THEN /\ sem_value' = sem_value - 1
            /\ active_tasks' = active_tasks + 1
            /\ rm_pc' = [rm_pc EXCEPT ![c] = "holding"]
            /\ UNCHANGED << rm_resumed, rm_unmatched, sem_waiters >>
       ELSE /\ sem_waiters' = Append(sem_waiters, [caller |-> c, done |-> FALSE])
            /\ rm_pc' = [rm_pc EXCEPT ![c] = "waiting"]
            /\ UNCHANGED << rm_resumed, rm_unmatched, sem_value, active_tasks >>
    /\ UNCHANGED << cacheVars, batchVars, resizeVars, extVars >>

\* acquire_task_slot, resumed: the caller's future was set by a release; the
\* caller leaves the queue, passes the wake-up on if permits are left, and
\* increments active_tasks.
acquire_resume(c) ==
    /\ rm_pc[c] = "waiting"
    /\ \E i \in 1..Len(sem_waiters) :
          sem_waiters[i].caller = c /\ sem_waiters[i].done
    /\ LET rest == SelectSeq(sem_waiters, LAMBDA w : w.caller # c)
           i == FirstPending(rest)
       IN IF sem_value > 0 /\ i # 0
          THEN /\ sem_value' = sem_value - 1
               /\ sem_waiters' = [rest EXCEPT ![i].done = TRUE]
          ELSE /\ sem_value' = sem_value
               /\ sem_waiters' = rest
    /\ active_tasks' = active_tasks + 1
    /\ rm_pc' = [rm_pc EXCEPT ![c] = "holding"]
    /\ rm_resumed' = TRUE
    /\ UNCHANGED rm_unmatched
    /\ UNCHANGED << cacheVars, batchVars, resizeVars, extVars >>

\* release_task_slot, called by a caller that holds a slot.
release_task_slot(c) ==
    /\ rm_pc[c] = "holding"
    /\ IF active_tasks > 0
       THEN LET sem == SemRelease(sem_value, sem_waiters) IN
            /\ active_tasks' = active_tasks - 1
            /\ sem_value' = sem.value
            /\ sem_waiters' = sem.waiters
       ELSE UNCHANGED << active_tasks, sem_value, sem_waiters >>
    /\ rm_pc' = [rm_pc EXCEPT ![c] = "idle"]
    /\ UNCHANGED << rm_resumed, rm_unmatched, cacheVars, batchVars, resizeVars, extVars >>

\* A release that leaves out the test of active_tasks.
release_unguarded(c) ==
    /\ rm_pc[c] = "idle"
    /\ Len(rm_unmatched) < MaxUnmatched
    /\ rm_unmatched' = Append(rm_unmatched, active_tasks > 0)
    /\ LET sem == SemRelease(sem_value, sem_waiters) IN
       /\ active_tasks' = active_tasks - 1
       /\ sem_value' = sem.value
       /\ sem_waiters' = sem.waiters
    /\ UNCHANGED << rm_pc, rm_resumed, cacheVars, batchVars, resizeVars, extVars >>

\* release_task_slot, called by a caller that holds no slot: it never
\* acquired one or has released it already.
release_unmatched(c) ==
    /\ rm_pc[c] = "idle"
    /\ Len(rm_unmatched) < MaxUnmatched
    /\ rm_unmatched' = Append(rm_unmatched, active_tasks > 0)
    /\ IF active_tasks > 0
       THEN LET sem == SemRelease(sem_value, sem_waiters) IN
            /\ active_tasks' = active_tasks - 1
            /\ sem_value' = sem.value
            /\ sem_waiters' = sem.waiters
       ELSE UNCHANGED << active_tasks, sem_value, sem_waiters >>
    /\ UNCHANGED << rm_pc, rm_resumed, cacheVars, batchVars, resizeVars, extVars >>

Acquire == \E c \in Callers : acquire_task_slot(c)
Resume == \E c \in Callers : acquire_resume(c)
Release == \E c \in Callers : release_task_slot(c)

RMNext == Acquire \/ Resume \/ Release

\* The callers that hold a slot, and those whose slot is granted (a waiter
\* whose future is set owns a permit before it runs again).
Holding == { c \in Callers : rm_pc[c] = "holding" }
Granted == { c \in Callers : \E i \in 1..Len(sem_waiters) :
                                sem_waiters[i].caller = c /\ sem_waiters[i].done }

\* C6: under any interleaving of acquire_task_slot and release_task_slot
\* calls, active_tasks is between 0 and max_tasks, and with more callers than
\* max_tasks never more than max_tasks callers hold a slot at the same time.
AdmissionBound ==
    /\ 0 <= active_tasks
    /\ active_tasks <= max_tasks
    /\ Cardinality(Holding \cup Granted) <= max_tasks

\* All max_tasks slots are held while another caller waits.
AdmissionBoundWitness ==
    /\ Cardinality(Holding) = max_tasks
    /\ active_tasks = max_tasks
    /\ \E c \in Callers : rm_pc[c] = "waiting"

\* ResourceManager.get_stats, without the memory readings of psutil.
ResourceStats ==
    [active_tasks |-> active_tasks,
     max_tasks |-> max_tasks,
     available_slots |-> max_tasks - active_tasks]

\* The acquire_task_slot calls that can still complete without waiting: none
\* while somebody is queued, else one for each free permit.
ImmediateAcquires == IF Len(sem_waiters) > 0 THEN 0 ELSE sem_value

\* A completed acquire_task_slot raises active_tasks by exactly 1 and the
\* release_task_slot of a holder lowers it by exactly 1.
OneUpOneDown ==
    \A c \in Callers :
        /\ (rm_pc[c] # "holding" /\ rm_pc'[c] = "holding") =>
               active_tasks' = active_tasks + 1
        /\ (rm_pc[c] = "holding" /\ rm_pc'[c] # "holding") =>
               active_tasks' = active_tasks - 1

\* C24 as stated: a completed acquire_task_slot raises active_tasks by
\* exactly 1, the following release_task_slot lowers it by exactly 1, and at
\* every moment get_stats reports available_slots = max_tasks - active_tasks,
\* which equals the number of acquires that can still complete without
\* waiting.
SlotRoundTripAsStated ==
    /\ [][OneUpOneDown]_vars
    /\ [](/\ ResourceStats.available_slots = max_tasks - active_tasks
          /\ ResourceStats.available_slots = ImmediateAcquires)

\* C24 amended: a completed acquire_task_slot raises active_tasks by exactly
\* 1, the following release_task_slot lowers it by exactly 1, and at every
\* moment get_stats reports available_slots = max_tasks - active_tasks, which
\* is the number of free permits plus the permits already handed to woken
\* callers that have not run yet; it equals the number of acquires that can
\* still complete without waiting whenever no such caller exists.
SlotRoundTrip ==
    /\ [][OneUpOneDown]_vars
    /\ [](/\ ResourceStats.available_slots = max_tasks - active_tasks
          /\ ResourceStats.available_slots = sem_value + Cardinality(Granted)
          /\ Granted = {} => ResourceStats.available_slots = ImmediateAcquires)

\* A caller that had to wait holds a slot, another slot is free again, and
\* get_stats would report it.
SlotRoundTripWitness ==
    /\ rm_resumed
    /\ Granted = {}
    /\ active_tasks = max_tasks - 1
    /\ ResourceStats.available_slots = 1
    /\ ImmediateAcquires = 1

\* The manager with callers that also release slots they do not hold.
RMLooseNext == RMNext \/ \E c \in Callers : release_unmatched(c)

\* release_task_slot called when active_tasks is 0 changes neither
\* active_tasks nor the semaphore.
UnmatchedNoOp ==
    (Len(rm_unmatched') > Len(rm_unmatched) /\ active_tasks = 0) =>
        UNCHANGED << active_tasks, sem_value, sem_waiters >>

RMFairness ==
    \A c \in Callers : WF_vars(release_task_slot(c)) /\ WF_vars(acquire_resume(c))

\* C18: a caller of acquire_task_slot that finds all max_tasks slots taken is
\* suspended, never refused, and if every slot holder eventually calls
\* release_task_slot then every suspended caller eventually obtains a slot.
NoStarvation ==
    /\ [][\A c \in Callers :
            (rm_pc[c] = "idle" /\ rm_pc'[c] # "idle" /\ active_tasks = max_tasks)
                => (rm_pc'[c] = "waiting" /\ active_tasks' = active_tasks)]_vars
    /\ \A c \in Callers : (rm_pc[c] = "waiting") ~> (rm_pc[c] = "holding")

\* A caller that was suspended with all slots taken has obtained a slot
\* after a release, and all slots are taken again.
NoStarvationWitness ==
    /\ rm_resumed
    /\ Cardinality(Holding) = max_tasks

(***************************************************************************)
(* BatchProcessor.process_batch                                            *)
(***************************************************************************)
\* BatchProcessor.max_workers
max_workers == MaxWorkers

\* What a task does when the executor runs it: return a value or raise.
TaskKinds == {"ok", "raise"}
TaskLists == UNION { [1..n -> TaskKinds] : n \in 0..MaxBatch }

BatchInit ==
    /\ tasks = << >>
    /\ progress_callback = FALSE
    /\ futures = << >>
    /\ results = << >>
    /\ completed = 0
    /\ progress = << >>
    /\ batch_pc = "idle"
    /\ batch_return = << >>

\* The tuple appended for the future of tasks[i]: (index, result, None) when
\* future.result() returns, (index, None, str(e)) when it raises.
Outcome(i) ==
    IF tasks[i] = "ok"
    THEN [index |-> i - 1, result |-> "value", error |-> "None"]
    ELSE [index |-> i - 1, result |-> "None", error |-> "message"]

\* results.sort(key=lambda x: x[0]): a stable sort by ascending index.
RECURSIVE InsertByIndex(_, _)
InsertByIndex(sorted, item) ==
    IF sorted = << >> THEN << item >>
    ELSE IF item.index < Head(sorted).index
         THEN << item >> \o sorted
         ELSE << Head(sorted) >> \o InsertByIndex(Tail(sorted), item)

RECURSIVE SortFrom(_, _)
SortFrom(rs, n) ==
    IF n = 0 THEN << >>
    ELSE InsertByIndex(SortFrom(rs, n - 1), rs[n])

\* The list left as as_completed filled it.
Unsorted(rs) == rs

SortByIndex(rs) == SortFrom(rs, Len(rs))

\* process_batch is called: results = [], completed = 0, total = len(tasks).
process_batch(ts, cb) ==
    /\ batch_pc = "idle"
    /\ tasks' = ts
    /\ progress_callback' = cb
    /\ futures' = << >>
    /\ results' = << >>
    /\ completed' = 0
    /\ progress' = << >>
    /\ batch_pc' = IF ts = << >> THEN "collect" ELSE "submit"
    /\ UNCHANGED << batch_return, cacheVars, rmVars, resizeVars, extVars >>

\* One turn of the submit loop: future = self.executor.submit(task).
submit ==
    /\ batch_pc = "submit"
    /\ futures' = Append(futures, "pending")
    /\ batch_pc' = IF Len(futures) + 1 = Len(tasks) THEN "collect" ELSE "submit"
    /\ UNCHANGED << tasks, progress_callback, results, completed, progress,
                    batch_return, cacheVars, rmVars, resizeVars, extVars >>

Running == { i \in 1..Len(futures) : futures[i] = "running" }

\* A worker thread of the pool takes the oldest queued task.
worker_start(i) ==
    /\ futures[i] = "pending"
    /\ \A j \in 1..(i - 1) : futures[j] # "pending"
    /\ Cardinality(Running) < max_workers
    /\ futures' = [futures EXCEPT ![i] = "running"]
    /\ UNCHANGED << tasks, progress_callback, results, completed, progress,
                    batch_pc, batch_return, cacheVars, rmVars, resizeVars, extVars >>

\* The task returns or raises in its worker thread: the future is done.
worker_finish(i) ==
    /\ futures[i] = "running"
    /\ futures' = [futures EXCEPT ![i] = "finished"]
    /\ UNCHANGED << tasks, progress_callback, results, completed, progress,
                    batch_pc, batch_return, cacheVars, rmVars, resizeVars, extVars >>

\* One turn of the loop over as_completed: a finished future not yet yielded.
collect(i) ==
    /\ batch_pc = "collect"
    /\ futures[i] = "finished"
    /\ \A j \in 1..Len(results) : results[j].index # i - 1
    /\ results' = Append(results, Outcome(i))
    /\ completed' = completed + 1
    /\ progress' = IF progress_callback
                   THEN Append(progress, << completed + 1, Len(tasks) >>)
                   ELSE progress
    /\ UNCHANGED << tasks, progress_callback, futures, batch_pc, batch_return,
                    cacheVars, rmVars, resizeVars, extVars >>

\* as_completed is exhausted: results.sort(key=lambda x: x[0]); return results.
\* The variable results keeps the order of collection.
batch_done ==
    /\ batch_pc = "collect"
    /\ Len(results) = Len(tasks)
    /\ batch_return' = SortByIndex(results)
    /\ batch_pc' = "returned"
    /\ UNCHANGED << tasks, progress_callback, futures, results, completed,
                    progress, cacheVars, rmVars, resizeVars, extVars >>

ProcessBatch == \E ts \in TaskLists, cb \in BOOLEAN : process_batch(ts, cb)
WorkerStart == \E i \in 1..Len(futures) : worker_start(i)
WorkerFinish == \E i \in 1..Len(futures) : worker_finish(i)
Collect == \E i \in 1..Len(futures) : collect(i)

BatchNext == ProcessBatch \/ submit \/ WorkerStart \/ WorkerFinish \/ Collect \/ batch_done

\* C7: process_batch on K tasks returns exactly K outcome tuples, one per
\* task, ordered by ascending input index 0..K-1, whatever order the tasks
\* complete in.
BatchOrderPreservation ==
    batch_pc = "returned" =>
        /\ Len(batch_return) = Len(tasks)
        /\ \A j \in 1..Len(tasks) : batch_return[j] = Outcome(j)

\* process_batch has returned after collecting the outcomes out of index order.
BatchOrderPreservationWitness ==
    /\ batch_pc = "returned"
    /\ Len(tasks) >= 2
    /\ \E j \in 1..(Len(results) - 1) : results[j].index > results[j + 1].index
    /\ \A j \in 1..Len(tasks) : batch_return[j].index = j - 1

(***************************************************************************)
(* tools/advanced.py: batch_resize                                         *)
(***************************************************************************)
\* The names bound in the module tools/advanced.py that come from config:
\* "from config import (...)".
ConfigImports ==
    { "MAX_IMAGE_SIZE", "MIN_IMAGE_SIZE", "MIN_DIMENSION", "MAX_BLUR_RADIUS",
      "DEFAULT_FORMAT", "DEFAULT_QUALITY", "DEFAULT_IMAGE_FORMAT" }

\* Reading a global name of the module succeeds when the name is bound,
\* and raises NameError otherwise.
NameBound(name) == name \in ConfigImports

\* An image source is one that ensure_valid_image_source and load_image accept
\* ("valid") or one they reject ("invalid"). A width or height is a number in
\* range ("valid") or absent ("missing": arguments.get returns None).
SourceKinds == {"valid", "invalid"}
SourceLists == UNION { [1..n -> SourceKinds] : n \in 0..MaxSources }
SizeKinds == {"valid", "missing"}

\* The arguments of a call. has_sources: the key image_sources is present.
Arguments ==
    [has_sources : BOOLEAN, image_sources : SourceLists,
     width : SizeKinds, height : SizeKinds, maintain_aspect_ratio : BOOLEAN]

\* No call yet.
NoArguments ==
    [has_sources |-> FALSE, image_sources |-> << >>, width |-> "missing",
     height |-> "missing", maintain_aspect_ratio |-> FALSE]
NoResponse ==
    [keys |-> {}, success |-> FALSE, error |-> "", results |-> << >>,
     total_images |-> 0, successful |-> 0, failed |-> 0]

ResizeInit ==
    /\ arguments = NoArguments
    /\ response = NoResponse
    /\ submitted = 0

\* arguments.get("image_sources", [])
GetImageSources(args) == IF args.has_sources THEN args.image_sources ELSE << >>

\* resize_single_image(image_source): the output_info dict of
\* processor.output_image, or the str "ERROR: ..." when anything raised
\* (an invalid source, or thumbnail/resize on a None width or height).
resize_single_image(args, image_source) ==
    IF image_source = "invalid" THEN "error_str"
    ELSE IF args.width = "missing" \/ args.height = "missing" THEN "error_str"
    ELSE "dict"

\* The failure envelope {"success": false, "error": ...}.
Failure(error) ==
    [keys |-> {"success", "error"}, success |-> FALSE, error |-> error,
     results |-> << >>, total_images |-> 0, successful |-> 0, failed |-> 0]

\* The loop over the futures, when it runs to its end: one entry per future
\* in submission order ("ERROR:" strings become failures).
ResultEntries(item_results) ==
    [i \in 1..Len(item_results) |->
        [index |-> i - 1, success |-> item_results[i] # "error_str"]]
FailedCount(item_results) ==
    Cardinality({ i \in 1..Len(item_results) : item_results[i] = "error_str" })

\* The body of batch_resize after the ThreadPoolExecutor is created.
\* result.startswith("ERROR:") raises AttributeError on a dict.
CollectFutures(args, image_sources) ==
    LET item_results == [i \in 1..Len(image_sources) |->
                            resize_single_image(args, image_sources[i])]
    IN IF \E i \in 1..Len(item_results) : item_results[i] = "dict"
       THEN Failure("AttributeError")
       ELSE [keys |-> {"success", "message", "results", "metadata"},
             success |-> TRUE, error |-> "",
             results |-> ResultEntries(item_results),
             total_images |-> Len(image_sources),
             successful |-> Len(item_results) - FailedCount(item_results),
             failed |-> FailedCount(item_results)]

\* batch_resize(arguments): the JSON value it returns and the number of
\* executor.submit calls it makes. validate_numeric_range returns a bool
\* that batch_resize does not read.
BatchResizeResult(args) ==
    LET image_sources == GetImageSources(args) IN
    IF image_sources = << >>
    THEN [response |-> Failure("ValidationError"), submitted |-> 0]
    ELSE IF ~NameBound("MAX_CONCURRENT_TASKS")
    THEN [response |-> Failure("NameError"), submitted |-> 0]
    ELSE [response |-> CollectFutures(args, image_sources),
          submitted |-> Len(image_sources)]

batch_resize(args) ==
    /\ arguments' = args
    /\ response' = BatchResizeResult(args).response
    /\ submitted' = BatchResizeResult(args).submitted
    /\ UNCHANGED << cacheVars, rmVars, batchVars, extVars >>

BatchResize == \E args \in Arguments : batch_resize(args)

ResizeNext == BatchResize

\* A call has returned.
Responded == response # NoResponse

\* The sources of a request with valid sizes, as batch_resize reads them.
ValidSizes == arguments.width = "valid" /\ arguments.height = "valid"
ImageSources == GetImageSources(arguments)

\* Item i is the one item of the batch that fails.
OnlyTaskFailing(i) ==
    /\ i \in 1..Len(tasks)
    /\ \A j \in 1..Len(tasks) : (tasks[j] = "raise") <=> (j = i)
OnlySourceFailing(i) ==
    /\ i \in 1..Len(ImageSources)
    /\ \A j \in 1..Len(ImageSources) : (ImageSources[j] = "invalid") <=> (j = i)

\* C8: for a batch of K items in which item i fails and every other item can
\* succeed, the result list has length K, entry i is a failure carrying an
\* error and every entry j # i is a success with index j; for process_batch
\* (a task that raises) and for batch_resize (an invalid image source).
BatchFailureIsolation ==
    /\ \A i \in 1..MaxBatch :
          (batch_pc = "returned" /\ OnlyTaskFailing(i)) =>
             /\ Len(batch_return) = Len(tasks)
             /\ batch_return[i].error # "None"
             /\ \A j \in 1..Len(tasks) :
                   /\ batch_return[j].index = j - 1
                   /\ j # i => /\ batch_return[j].error = "None"
                               /\ batch_return[j].result # "None"
    /\ \A i \in 1..MaxSources :
          (Responded /\ ValidSizes /\ OnlySourceFailing(i)) =>
             /\ "results" \in response.keys
             /\ Len(response.results) = Len(ImageSources)
             /\ response.results[i].success = FALSE
             /\ \A j \in 1..Len(ImageSources) :
                   /\ response.results[j].index = j - 1
                   /\ j # i => response.results[j].success = TRUE

\* C9: a batch request with zero items (batch_resize with an empty or missing
\* image_sources list, process_batch with an empty task list) is reported as
\* a failure and not as an empty success, and no per-item work is started.
EmptyBatchRejection ==
    /\ (Responded /\ ImageSources = << >>) =>
          /\ response.success = FALSE
          /\ "error" \in response.keys
          /\ submitted = 0
    /\ (batch_pc = "returned" /\ tasks = << >>) =>
          /\ batch_return # << >>
          /\ futures = << >>

\* C10: for a request with K >= 1 valid image sources and a valid width and
\* height, batch_resize returns success true with a results list of exactly K
\* entries, entry j carrying index j, and metadata where
\* successful + failed = total_images = K.
BatchResizeReport ==
    (/\ Responded /\ ValidSizes /\ Len(ImageSources) >= 1
     /\ \A i \in 1..Len(ImageSources) : ImageSources[i] = "valid") =>
        /\ response.success = TRUE
        /\ Len(response.results) = Len(ImageSources)
        /\ \A j \in 1..Len(ImageSources) : response.results[j].index = j - 1
        /\ response.successful + response.failed = response.total_images
        /\ response.total_images = Len(ImageSources)

(***************************************************************************)
(* PerformanceMonitor                                                      *)
(***************************************************************************)
\* Python's max(x, 1), the denominator get_stats divides by.
MaxWithOneDropped(x) == x
MaxWithOne(x) == IF x > 1 THEN x ELSE 1

\* Python's a / b on numbers: a ratio num/den in lowest terms, or the
\* ZeroDivisionError that b = 0 raises. Times are counted in hundredths of a
\* second and memory in MB, so that sums and quotients are exact.
RECURSIVE Gcd(_, _)
Gcd(a, b) == IF b = 0 THEN a ELSE Gcd(b, a % b)
Abs(x) == IF x < 0 THEN 0 - x ELSE x
ZeroDivisionError == [raised |-> TRUE, num |-> 0, den |-> 1]
Ratio(a, b) ==
    LET g == Gcd(Abs(a), Abs(b)) IN
    [raised |-> FALSE, num |-> a \div g, den |-> b \div g]
Div(a, b) == IF b = 0 THEN ZeroDivisionError ELSE Ratio(a, b)
IsZero(q) == ~q.raised /\ q.num = 0
IsRatio(q, a, b) == ~q.raised /\ q.num * b = a * q.den

\* unittest's assertAlmostEqual(q, a / b, places): round(|q - a/b|, places) == 0,
\* that is |q - a/b| < 0.5 * 10^-places.
AlmostEqual(q, a, b, places) ==
    /\ ~q.raised
    /\ 2 * (10 ^ places) * Abs(q.num * b - a * q.den) < q.den * b

\* sum(list)
RECURSIVE Sum(_)
Sum(xs) == IF xs = << >> THEN 0 ELSE Head(xs) + Sum(Tail(xs))

\* The arguments of a record_operation call: the processing time, the memory
\* used, cache_hit and error.
OpArgs(processing_time, memory_used, cache_hit, error) ==
    [processing_time |-> processing_time, memory_used |-> memory_used,
     cache_hit |-> cache_hit, error |-> error]
\* The calls made on a monitor: the three of test_performance_monitor and a
\* fourth, a cache hit with an error.
RecordArgs ==
    { OpArgs(10, 10, FALSE, FALSE), OpArgs(20, 15, TRUE, FALSE),
      OpArgs(15, 12, FALSE, TRUE), OpArgs(5, 0, TRUE, TRUE) }

\* PerformanceMonitor.__init__: self.metrics
NewMetrics ==
    [total_operations |-> 0, total_processing_time |-> 0, memory_usage |-> << >>,
     cache_hits |-> 0, cache_misses |-> 0, errors |-> 0]

\* No get_stats result.
NoStats == [taken |-> FALSE]

\* No reset yet.
NothingCleared == [operations |-> 0, items |-> 0]

MonitorInit ==
    /\ metrics = NewMetrics
    /\ start_time = 0
    /\ recorded = << >>
    /\ stats = NoStats
    /\ resets = 0
    /\ cleared = NothingCleared

\* record_operation without its else branch: a call that is no cache hit is
\* not counted as a miss.
RecordOperationNoMiss(m, a) ==
    [total_operations |-> m.total_operations + 1,
     total_processing_time |-> m.total_processing_time + a.processing_time,
     memory_usage |-> Append(m.memory_usage, a.memory_used),
     cache_hits |-> IF a.cache_hit THEN m.cache_hits + 1 ELSE m.cache_hits,
     cache_misses |-> m.cache_misses,
     errors |-> IF a.error THEN m.errors + 1 ELSE m.errors]

\* record_operation keeping a memory sample only when memory_used is not 0.
RecordOperationNoSample(m, a) ==
    [total_operations |-> m.total_operations + 1,
     total_processing_time |-> m.total_processing_time + a.processing_time,
     memory_usage |-> IF a.memory_used # 0
                      THEN Append(m.memory_usage, a.memory_used)
                      ELSE m.memory_usage,
     cache_hits |-> IF a.cache_hit THEN m.cache_hits + 1 ELSE m.cache_hits,
     cache_misses |-> IF a.cache_hit THEN m.cache_misses ELSE m.cache_misses + 1,
     errors |-> IF a.error THEN m.errors + 1 ELSE m.errors]

\* PerformanceMonitor.record_operation on the metrics m.
RecordOperation(m, a) ==
    [total_operations |-> m.total_operations + 1,
     total_processing_time |-> m.total_processing_time + a.processing_time,
     memory_usage |-> Append(m.memory_usage, a.memory_used),
     cache_hits |-> IF a.cache_hit THEN m.cache_hits + 1 ELSE m.cache_hits,
     cache_misses |-> IF a.cache_hit THEN m.cache_misses ELSE m.cache_misses + 1,
     errors |-> IF a.error THEN m.errors + 1 ELSE m.errors]

\* PerformanceMonitor.get_stats on the metrics m of a monitor started at t0.
MonitorStats(m, t0) ==
    LET uptime == now - t0 IN
    [uptime_seconds |-> uptime,
     total_operations |-> m.total_operations,
     average_processing_time |->
         Div(m.total_processing_time, MaxWithOne(m.total_operations)),
     average_memory_usage_mb |->
         Div(Sum(m.memory_usage), MaxWithOne(Len(m.memory_usage))),
     cache_hit_rate |->
         Div(m.cache_hits, MaxWithOne(m.cache_hits + m.cache_misses)),
     error_rate |-> Div(m.errors, MaxWithOne(m.total_operations)),
     operations_per_second |-> Div(m.total_operations, MaxWithOne(uptime))]

\* A get_stats result raised when one of its divisions did.
StatsRaised(s) ==
    \/ s.average_processing_time.raised
    \/ s.average_memory_usage_mb.raised
    \/ s.cache_hit_rate.raised
    \/ s.error_rate.raised
    \/ s.operations_per_second.raised

\* monitor.record_operation(...): at most MaxOps calls on one monitor.
record_operation(a) ==
    /\ Len(recorded) < MaxOps
    /\ metrics' = RecordOperation(metrics, a)
    /\ recorded' = Append(recorded, a)
    /\ stats' = NoStats
    /\ UNCHANGED << start_time, resets, cleared, cacheVars, rmVars, batchVars, resizeVars, notMon, thrVars >>

\* The difference between the two rss_mb readings of a call, in MB.
MemoryDelta == 3

\* performance_tracking's sync_wrapper around a function that returns or
\* raises: the cache is not consulted, and the finally clause records the
\* call with cache_hit False and the error flag. The clock does not advance
\* during the call.
sync_wrapper(raises) ==
    record_operation(OpArgs(0, MemoryDelta, FALSE, raises))

\* monitor.get_stats()
get_stats ==
    /\ stats' = [taken |-> TRUE, monitor |-> MonitorStats(metrics, start_time)]
    /\ UNCHANGED << metrics, start_time, recorded, resets, cleared,
                    cacheVars, rmVars, batchVars, resizeVars, notMon, thrVars >>

\* monitor = PerformanceMonitor(): a fresh monitor replaces the old one.
new_monitor ==
    /\ metrics' = NewMetrics
    /\ start_time' = now
    /\ recorded' = << >>
    /\ stats' = NoStats
    /\ UNCHANGED << resets, cleared, cacheVars, rmVars, batchVars, resizeVars, notMon, thrVars >>

MonitorNext ==
    \/ \E a \in RecordArgs : record_operation(a)
    \/ \E raises \in BOOLEAN : sync_wrapper(raises)
    \/ get_stats
    \/ new_monitor
    \/ Tick

\* The cache_hit and error flags of the recorded calls, in call order.
HitFlags == [i \in 1..Len(recorded) |-> recorded[i].cache_hit]
ErrorFlags == [i \in 1..Len(recorded) |-> recorded[i].error]
\* get_stats has returned after exactly the three calls of the test.
ThreeTestCalls ==
    /\ stats.taken
    /\ HitFlags = << FALSE, TRUE, FALSE >>
    /\ ErrorFlags = << FALSE, FALSE, TRUE >>

Flagged(field, value) == { i \in 1..Len(recorded) : recorded[i][field] = value }

\* The counters of the monitor agree with each other and with the calls
\* recorded since the monitor was made.
CountersAgree ==
    /\ metrics.cache_hits + metrics.cache_misses = metrics.total_operations
    /\ metrics.total_operations = Len(metrics.memory_usage)
    /\ metrics.total_operations = Len(recorded)
    /\ metrics.errors <= metrics.total_operations
    /\ metrics.cache_hits = Cardinality(Flagged("cache_hit", TRUE))
    /\ metrics.cache_misses = Cardinality(Flagged("cache_hit", FALSE))

\* Unless the step makes a new monitor, no counter decreases.
CountersGrow ==
    recorded' # << >> =>
        /\ metrics'.total_operations >= metrics.total_operations
        /\ metrics'.total_processing_time >= metrics.total_processing_time
        /\ Len(metrics'.memory_usage) >= Len(metrics.memory_usage)
        /\ metrics'.cache_hits >= metrics.cache_hits
        /\ metrics'.cache_misses >= metrics.cache_misses
        /\ metrics'.errors >= metrics.errors

\* C30: in every state reached by sequential record_operation calls,
\* cache_hits + cache_misses = total_operations = the number of recorded
\* memory samples, errors <= total_operations, and no counter decreases
\* between two resets; every call not flagged as a cache hit is counted as a
\* cache miss, also a call that never consulted the cache.
CounterConsistency == []CountersAgree /\ [][CountersGrow]_vars

\* A hit, a call with no memory growth and a call recorded by sync_wrapper,
\* which raised and never consulted the cache, are counted.
CounterConsistencyWitness ==
    /\ Len(recorded) = 3
    /\ \E i \in 1..3 : recorded[i] = OpArgs(0, MemoryDelta, FALSE, TRUE)
    /\ \E i \in 1..3 : recorded[i].memory_used = 0
    /\ metrics.cache_hits = 1
    /\ metrics.cache_misses = 2
    /\ metrics.errors >= 1

(***************************************************************************)
(* The global instances: performance_tracking, get_performance_stats and   *)
(* reset_performance_stats                                                 *)
(***************************************************************************)
\* ImageCache.get_stats, in bytes (the division by 1024 * 1024 is left out).
CacheStats ==
    [enabled |-> enabled,
     items_count |-> Cardinality(DOMAIN cache),
     current_size |-> current_size,
     max_size |-> max_size_bytes,
     usage_percentage |-> Div(current_size * 100, max_size_bytes)]

\* get_performance_stats(): the value it returns (without "timestamp").
PerformanceStats ==
    [taken |-> TRUE,
     monitor |-> MonitorStats(metrics, start_time),
     cache |-> CacheStats,
     resources |-> ResourceStats]

\* What the decorated function does when the wrapper runs it: it returns a
\* result whose text is "x" or "yy", it returns the envelope of a failure
\* ({"success": false, ...}, the text "E" here), or it raises.
FuncOutcomes == {"x", "yy", "E", "raise"}

\* The argument maps the decorated function is called with: the same
\* request in two key orders, another request, and one map that also holds a
\* bytes object, which json.dumps in _get_cache_key rejects with TypeError.
TrackedCalls ==
    { [req |-> r, bytes |-> FALSE] :
          r \in { Req("a", "c", << <<"w", 1>>, <<"h", 2>> >>),
                  Req("a", "c", << <<"h", 2>>, <<"w", 1>> >>),
                  Req("a:b", "c", << >>) } }
    \cup { [req |-> Req("a:b", "c", << >>), bytes |-> TRUE] }

\* Python's truth value of what image_cache.get returned.
Truthy(result) == result # None /\ (result.is_str => result.text # "")

\* The state ImageCache.get leaves behind, and what it returns.
GetOn(st, t, req) ==
    IF enabled /\ KeyOf(req) \in DOMAIN st.cache
    THEN [st |-> [st EXCEPT !.access_times = SetTime(st.access_times, KeyOf(req), t)],
          returned |-> st.cache[KeyOf(req)].result]
    ELSE [st |-> st, returned |-> None]

\* "except Exception: error = True" flags every call that raised.
ErrorFlagNever(raised) == FALSE
ErrorFlag(raised) == raised

\* No decorated call yet.
NoTracked ==
    [call |-> [req |-> NoRequest, bytes |-> FALSE], outcome |-> "", held |-> None,
     cache_hit |-> FALSE, func_runs |-> 0, stored |-> FALSE, returned |-> "",
     raised |-> FALSE, records |-> << >>]

TrackedInit == tracked = NoTracked

\* async_wrapper of performance_tracking(call.req.operation) on the cache
\* state st at time t, around a function that does what outcome says: the
\* cache state it leaves and what happened in the call. With an image_source
\* the wrapper asks image_cache.get, which raises when the key cannot be
\* made; a truthy cached result is returned without running the function;
\* otherwise the function runs and the text of what it returns is handed to
\* image_cache.put; the finally clause records the operation once.
AsyncWrapper(st, t, call, outcome) ==
    LET req == call.req
        held == IF ~call.bytes /\ KeyOf(req) \in DOMAIN st.cache
                THEN st.cache[KeyOf(req)].result ELSE None
        lookup == req.image_source # ""
        get_raises == lookup /\ enabled /\ call.bytes
        looked == IF lookup /\ ~get_raises THEN GetOn(st, t, req)
                  ELSE [st |-> st, returned |-> None]
        cache_hit == ~get_raises /\ Truthy(looked.returned)
        func_runs == IF get_raises \/ cache_hit THEN 0 ELSE 1
        func_raises == func_runs = 1 /\ outcome = "raise"
        stored == func_runs = 1 /\ ~func_raises /\ lookup /\ enabled
        raised == get_raises \/ func_raises
    IN [st |-> IF stored THEN PutOn(looked.st, t, req, StrResult(outcome), NoImage)
               ELSE looked.st,
        looked |-> looked.returned,
        info |-> [call |-> call, outcome |-> outcome, held |-> held,
                  cache_hit |-> cache_hit, func_runs |-> func_runs,
                  stored |-> stored,
                  returned |-> IF get_raises THEN "TypeError"
                               ELSE IF cache_hit THEN looked.returned.text
                               ELSE IF func_raises THEN "Exception"
                               ELSE outcome,
                  raised |-> raised,
                  records |-> << OpArgs(0, MemoryDelta, cache_hit, ErrorFlag(raised)) >>]]

\* One call of a coroutine function decorated with @performance_tracking.
\* The clock does not move during the call. At most MaxCalls calls are made
\* on one monitor.
tracked_call(call, outcome) ==
    /\ Len(recorded) < MaxCalls
    /\ LET w == AsyncWrapper(CacheState, now, call, outcome)
           st == w.st
       IN /\ cache' = st.cache
          /\ access_times' = st.access_times
          /\ current_size' = st.current_size
          /\ stored_by' = IF w.info.stored THEN StoredBy(st.cache, call.req)
                          ELSE stored_by
          /\ last' = IF w.info.stored
                     THEN [op |-> "put", req |-> call.req, returned |-> None,
                           evicted |-> Times(st.evicted), kept |-> Times(st.kept)]
                     ELSE [op |-> "get", req |-> call.req, returned |-> w.looked,
                           evicted |-> {}, kept |-> {}]
          /\ metrics' = RecordOperation(metrics, w.info.records[1])
          /\ recorded' = Append(recorded, w.info.records[1])
          /\ tracked' = w.info
    /\ stats' = NoStats
    /\ resets' = 0
    /\ cleared' = NothingCleared
    /\ UNCHANGED << enabled, now, start_time, rmVars, batchVars, resizeVars,
                    toolVars, ctVars, toVars, bpVars, thrVars >>

\* get_performance_stats()
get_performance_stats ==
    /\ stats' = PerformanceStats
    /\ UNCHANGED << metrics, start_time, recorded, resets, cleared,
                    cacheVars, rmVars, batchVars, resizeVars, notMon, thrVars >>

\* reset_performance_stats() without its image_cache.clear().
reset_without_clear ==
    /\ metrics' = NewMetrics
    /\ start_time' = now
    /\ recorded' = << >>
    /\ stats' = NoStats
    /\ resets' = IF resets < 2 THEN resets + 1 ELSE 2
    /\ cleared' = IF resets = 0
                  THEN [operations |-> metrics.total_operations,
                        items |-> Cardinality(DOMAIN cache)]
                  ELSE cleared
    /\ UNCHANGED << cacheVars, rmVars, batchVars, resizeVars, notMon, thrVars >>

\* reset_performance_stats(): a new PerformanceMonitor replaces the global
\* one, image_cache.clear(), and a garbage collection.
reset_performance_stats ==
    /\ metrics' = NewMetrics
    /\ start_time' = now
    /\ recorded' = << >>
    /\ cache' = EmptyDict
    /\ access_times' = << >>
    /\ current_size' = 0
    /\ stored_by' = EmptyDict
    /\ last' = [op |-> "clear", req |-> NoRequest, returned |-> None,
                evicted |-> {}, kept |-> {}]
    /\ stats' = NoStats
    /\ resets' = IF resets < 2 THEN resets + 1 ELSE 2
    /\ cleared' = IF resets = 0
                  THEN [operations |-> metrics.total_operations,
                        items |-> Cardinality(DOMAIN cache)]
                  ELSE cleared
    /\ UNCHANGED << enabled, now, rmVars, batchVars, resizeVars, notMon, thrVars >>

PerfNext ==
    \/ \E call \in TrackedCalls, outcome \in FuncOutcomes : tracked_call(call, outcome)
    \/ get_performance_stats
    \/ reset_performance_stats
    \/ Tick

\* C21: in a decorated call, a failure inside the cache lookup (an argument
\* map that cannot be serialized into a cache key) is treated as a cache
\* miss: the wrapped function still runs, its result is returned, and the
\* failure is not counted as an error of the operation.
CacheFailuresContained ==
    tracked.call.bytes =>
        /\ tracked.func_runs = 1
        /\ tracked.outcome # "raise" =>
              /\ tracked.returned = tracked.outcome
              /\ ~tracked.raised
              /\ ~tracked.records[1].error

\* C25: the wrapper creates a cache entry only when the wrapped function
\* succeeded: after a call in which the function raised or returned the
\* envelope of a failure, image_cache.put was not called with its result.
OnlySuccessCached ==
    (tracked.func_runs = 1 /\ tracked.outcome \in {"raise", "E"}) => ~tracked.stored

\* C26: in a decorated call with an image_source, when the cache holds an
\* entry for the request the wrapped function is not executed and the stored
\* payload is returned; otherwise (a miss) the function is executed exactly
\* once and, when it returns, its result is stored before the call returns.
HitShortCircuits ==
    tracked.call.req.image_source # "" =>
        IF tracked.held # None
        THEN /\ tracked.func_runs = 0
             /\ tracked.cache_hit
             /\ tracked.returned = tracked.held.text
        ELSE /\ tracked.func_runs = 1
             /\ tracked.outcome # "raise" => tracked.stored

\* C27: every decorated call, whether it ends as a cache hit, as a miss that
\* succeeds or with a raised exception, calls record_operation exactly once,
\* when the call is over, with cache_hit true only for a hit and error true
\* only when an exception was raised.
OneRecordPerCall ==
    /\ metrics.total_operations = Len(recorded)
    /\ tracked # NoTracked =>
          /\ Len(tracked.records) = 1
          /\ tracked.records[1].cache_hit = (tracked.held # None /\ tracked.func_runs = 0)
          /\ tracked.records[1].error = tracked.raised
          /\ tracked.raised = (tracked.returned \in {"TypeError", "Exception"})
          /\ Len(recorded) > 0 => recorded[Len(recorded)] = tracked.records[1]

\* Two calls were recorded: a miss whose function returned, without either
\* flag, and then a cache hit, with cache_hit true.
OneRecordPerCallWitness ==
    /\ Len(recorded) = 2
    /\ ~recorded[1].cache_hit /\ ~recorded[1].error
    /\ recorded[2].cache_hit /\ ~recorded[2].error
    /\ tracked.cache_hit /\ tracked.func_runs = 0

\* C28: on an enabled cache, whatever the request and the payload, put evicts
\* no entry when the new item fits (current_size + size <= capacity);
\* otherwise it evicts entries one by one, least recently used first, and
\* stops as soon as the item fits or the cache is empty; and in all cases it
\* then inserts the entry, so that a get for the same key directly after the
\* put returns the payload just stored.
PutStoresEvictingWhatIsNeeded ==
    enabled =>
        \A req \in Requests, args \in PutArgs :
            LET size == ItemSize(args[1], args[2])
                st == PutOn(CacheState, now, req, args[1], args[2])
                ev == st.evicted
                order == SortedItems(access_times)
                Freed(n) == SumSizes(cache, { ev[i].key : i \in 1..n })
            IN /\ current_size + size <= max_size_bytes => ev = << >>
               /\ ev = SubSeq(order, 1, Len(ev))
               /\ Len(ev) > 0 =>
                     current_size - Freed(Len(ev) - 1) + size > max_size_bytes
               /\ \/ current_size - Freed(Len(ev)) + size <= max_size_bytes
                  \/ Len(ev) = Len(order)
               /\ KeyOf(req) \in DOMAIN st.cache
               /\ st.cache[KeyOf(req)].result = args[1]
               /\ GetOn(st, now, req).returned = args[1]

\* A put has evicted the least recently used entry, kept another one, and
\* stored its payload.
PutStoresEvictingWhatIsNeededWitness ==
    /\ last.op = "put"
    /\ last.evicted # {}
    /\ last.kept # last.evicted
    /\ Cardinality(DOMAIN cache) >= 2
    /\ KeyOf(last.req) \in DOMAIN cache

Counters(s) ==
    [monitor |-> [s.monitor EXCEPT !.uptime_seconds = 0],
     cache |-> s.cache,
     resources |-> s.resources]

\* C13: after reset_performance_stats, whatever was recorded and cached
\* before, get_performance_stats reports monitor total_operations = 0, cache
\* items_count = 0 and cache current size 0; and a second reset leaves the
\* statistics as the first one left them.
ResetClearsStats ==
    /\ [](stats.taken /\ resets >= 1 =>
             /\ stats.monitor.total_operations = 0
             /\ stats.cache.items_count = 0
             /\ stats.cache.current_size = 0)
    /\ [][(resets = 1 /\ resets' = 2) =>
             Counters(PerformanceStats)' = Counters(PerformanceStats)]_vars

\* The statistics were read after two resets in a row, the first of which
\* discarded recorded operations and cached entries.
ResetClearsStatsWitness ==
    /\ stats.taken
    /\ resets = 2
    /\ cleared.operations > 0
    /\ cleared.items > 0
    /\ stats.monitor.total_operations = 0
    /\ stats.cache.items_count = 0

(***************************************************************************)
(* PerformanceMonitor.record_operation called from several threads         *)
(***************************************************************************)
\* The threads that run tool calls (safe_run_async hands each coroutine to a
\* thread of its own executor).
Threads == 1..MaxThreads

ThreadInit ==
    /\ thr_pc = [t \in Threads |-> "idle"]
    /\ thr_args = [t \in Threads |-> OpArgs(0, 0, FALSE, FALSE)]
    /\ thr_tmp = [t \in Threads |-> 0]

\* The statement after the "+=" of line 43: the branch on cache_hit, the
\* branch on error, the return.
AfterAppend(a) == IF a.cache_hit THEN "46r" ELSE "48r"
AfterHitOrMiss(a) == IF a.error THEN "51r" ELSE "idle"

\* A thread calls performance_monitor.record_operation(...).
thread_call(t, a) ==
    /\ thr_pc[t] = "idle"
    /\ Len(recorded) < MaxOps
    /\ thr_pc' = [thr_pc EXCEPT ![t] = "41r"]
    /\ thr_args' = [thr_args EXCEPT ![t] = a]
    /\ recorded' = Append(recorded, a)
    /\ UNCHANGED << metrics, thr_tmp, start_time, stats, resets, cleared,
                    cacheVars, rmVars, batchVars, resizeVars, notMon >>

\* self.metrics[key] += n is a read of the item followed by a write of the
\* sum; no lock is held, and another thread may run between the two.
ReadItem(t, key, next) ==
    /\ thr_tmp' = [thr_tmp EXCEPT ![t] = metrics[key]]
    /\ thr_pc' = [thr_pc EXCEPT ![t] = next]
    /\ UNCHANGED metrics
WriteItem(t, key, n, next) ==
    /\ metrics' = [metrics EXCEPT ![key] = thr_tmp[t] + n]
    /\ thr_pc' = [thr_pc EXCEPT ![t] = next]
    /\ UNCHANGED thr_tmp

\* One step of a thread inside record_operation, named by its source line.
thread_step(t) ==
    /\ thr_pc[t] # "idle"
    /\ LET a == thr_args[t] IN
       CASE thr_pc[t] = "41r" -> ReadItem(t, "total_operations", "41w")
         [] thr_pc[t] = "41w" -> WriteItem(t, "total_operations", 1, "42r")
         [] thr_pc[t] = "42r" -> ReadItem(t, "total_processing_time", "42w")
         [] thr_pc[t] = "42w" ->
                WriteItem(t, "total_processing_time", a.processing_time, "43")
         [] thr_pc[t] = "43" ->
                /\ metrics' = [metrics EXCEPT !.memory_usage =
                                   Append(metrics.memory_usage, a.memory_used)]
                /\ thr_pc' = [thr_pc EXCEPT ![t] = AfterAppend(a)]
                /\ UNCHANGED thr_tmp
         [] thr_pc[t] = "46r" -> ReadItem(t, "cache_hits", "46w")
         [] thr_pc[t] = "46w" -> WriteItem(t, "cache_hits", 1, AfterHitOrMiss(a))
         [] thr_pc[t] = "48r" -> ReadItem(t, "cache_misses", "48w")
         [] thr_pc[t] = "48w" -> WriteItem(t, "cache_misses", 1, AfterHitOrMiss(a))
         [] thr_pc[t] = "51r" -> ReadItem(t, "errors", "51w")
         [] thr_pc[t] = "51w" -> WriteItem(t, "errors", 1, "idle")
    /\ UNCHANGED << thr_args, recorded, start_time, stats, resets, cleared,
                    cacheVars, rmVars, batchVars, resizeVars, notMon >>

MonThreadsNext ==
    \/ \E t \in Threads, a \in RecordArgs : thread_call(t, a)
    \/ \E t \in Threads : thread_step(t)

\* The number of recorded calls made with error true.
ErrorCalls == Cardinality({ i \in 1..Len(recorded) : recorded[i].error })

\* C16: when several threads call record_operation concurrently, after all
\* n calls have returned total_operations = n, cache_hits + cache_misses = n
\* and errors = the number of calls made with error true.
NoLostMetricUpdate ==
    (\A t \in Threads : thr_pc[t] = "idle") =>
        /\ metrics.total_operations = Len(recorded)
        /\ metrics.cache_hits + metrics.cache_misses = Len(recorded)
        /\ metrics.errors = ErrorCalls

(***************************************************************************)
(* ImageCache.get and ImageCache.put called from several threads           *)
(***************************************************************************)
\* The calls the threads make on the shared cache: get and put on two
\* requests with different keys, with results of size 1 and 2.
ThreadRequests == { Req("a:b", "c", << >>), Req("a", "c", << <<"w", 1>>, <<"h", 2>> >>) }
ThreadResults == { StrResult("x"), StrResult("yy") }

\* The local variables of a thread that is in no call.
IdleLocal ==
    [op |-> "none", cache_key |-> "", result |-> None, item_size |-> 0,
     sorted_items |-> << >>, i |-> 0, victim_size |-> 0, tmp |-> 0]

CacheThreadInit ==
    /\ ct_pc = [t \in Threads |-> "idle"]
    /\ ct_local = [t \in Threads |-> IdleLocal]
    /\ ct_calls = 0
    /\ ct_error = "None"

\* A thread calls image_cache.get(...): lines 116-119.
thread_get(t, req) ==
    /\ ct_pc[t] = "idle"
    /\ ct_calls < MaxCacheCalls
    /\ ct_calls' = ct_calls + 1
    /\ IF ~enabled
       THEN UNCHANGED << ct_pc, ct_local >>
       ELSE /\ ct_pc' = [ct_pc EXCEPT ![t] = "121"]
            /\ ct_local' = [ct_local EXCEPT ![t] =
                               [IdleLocal EXCEPT !.op = "get", !.cache_key = KeyOf(req)]]
    /\ UNCHANGED << ct_error, cacheVars, rmVars, batchVars, resizeVars, notCacheThreads >>

\* A thread calls image_cache.put(...): lines 130-140.
thread_put(t, req, result) ==
    /\ ct_pc[t] = "idle"
    /\ ct_calls < MaxCacheCalls
    /\ ct_calls' = ct_calls + 1
    /\ IF ~enabled
       THEN UNCHANGED << ct_pc, ct_local >>
       ELSE /\ ct_pc' = [ct_pc EXCEPT ![t] = "143"]
            /\ ct_local' = [ct_local EXCEPT ![t] =
                               [IdleLocal EXCEPT !.op = "put", !.cache_key = KeyOf(req),
                                                 !.result = result,
                                                 !.item_size = ItemSize(result, NoImage)]]
    /\ UNCHANGED << ct_error, cacheVars, rmVars, batchVars, resizeVars, notCacheThreads >>

\* The thread goes on to the statement at line pc with the locals l.
Goto(t, pc, l) ==
    /\ ct_pc' = [ct_pc EXCEPT ![t] = pc]
    /\ ct_local' = [ct_local EXCEPT ![t] = l]
    /\ UNCHANGED ct_error
\* The call of the thread returns.
Return(t) ==
    /\ ct_pc' = [ct_pc EXCEPT ![t] = "idle"]
    /\ ct_local' = [ct_local EXCEPT ![t] = IdleLocal]
    /\ UNCHANGED ct_error
\* The statement at line pc raises KeyError: the call fails.
RaiseKeyError(t, pc) ==
    /\ ct_pc' = [ct_pc EXCEPT ![t] = "idle"]
    /\ ct_local' = [ct_local EXCEPT ![t] = IdleLocal]
    /\ ct_error' = "KeyError at line " \o pc
    /\ UNCHANGED << cache, access_times, current_size >>

\* One statement of get, put or _cleanup_cache run by a thread, named by its
\* source line. No lock is held between two statements; a "+=" or "-=" on
\* current_size is a read ("r") followed by a write ("w").
cache_thread_step(t) ==
    /\ ct_pc[t] # "idle"
    /\ LET l == ct_local[t]
           k == l.cache_key
           victim == l.sorted_items[l.i].key
       IN
       CASE ct_pc[t] = "121" ->
                /\ IF k \in DOMAIN cache THEN Goto(t, "122", l) ELSE Return(t)
                /\ UNCHANGED << cache, access_times, current_size >>
         [] ct_pc[t] = "122" ->
                /\ access_times' = SetTime(access_times, k, now)
                /\ Goto(t, "123", l)
                /\ UNCHANGED << cache, current_size >>
         [] ct_pc[t] = "123" ->
                IF k \in DOMAIN cache
                THEN /\ Return(t)
                     /\ UNCHANGED << cache, access_times, current_size >>
                ELSE RaiseKeyError(t, "123")
         [] ct_pc[t] = "143" ->
                /\ IF current_size + l.item_size > max_size_bytes
                   THEN Goto(t, "104", [l EXCEPT !.sorted_items = SortedItems(access_times),
                                                 !.i = 1])
                   ELSE Goto(t, "147", l)
                /\ UNCHANGED << cache, access_times, current_size >>
         [] ct_pc[t] = "104" ->
                /\ IF l.i > Len(l.sorted_items)
                   THEN Goto(t, "147", l)
                   ELSE IF current_size + l.item_size <= max_size_bytes
                   THEN Goto(t, "147", l)
                   ELSE IF victim \in DOMAIN cache
                   THEN Goto(t, "109", l)
                   ELSE Goto(t, "104", [l EXCEPT !.i = l.i + 1])
                /\ UNCHANGED << cache, access_times, current_size >>
         [] ct_pc[t] = "109" ->
                IF victim \in DOMAIN cache
                THEN /\ Goto(t, "110", [l EXCEPT !.victim_size = cache[victim].size])
                     /\ UNCHANGED << cache, access_times, current_size >>
                ELSE RaiseKeyError(t, "109")
         [] ct_pc[t] = "110" ->
                IF victim \in DOMAIN cache
                THEN /\ cache' = DictDel(cache, victim)
                     /\ Goto(t, "111", l)
                     /\ UNCHANGED << access_times, current_size >>
                ELSE RaiseKeyError(t, "110")
         [] ct_pc[t] = "111" ->
                IF HasKey(access_times, victim)
                THEN /\ access_times' = DelTime(access_times, victim)
                     /\ Goto(t, "112r", l)
                     /\ UNCHANGED << cache, current_size >>
                ELSE RaiseKeyError(t, "111")
         [] ct_pc[t] = "112r" ->
                /\ Goto(t, "112w", [l EXCEPT !.tmp = current_size])
                /\ UNCHANGED << cache, access_times, current_size >>
         [] ct_pc[t] = "112w" ->
                /\ current_size' = l.tmp - l.victim_size
                /\ Goto(t, "104", [l EXCEPT !.i = l.i + 1])
                /\ UNCHANGED << cache, access_times >>
         [] ct_pc[t] = "147" ->
                /\ cache' = DictSet(cache, k, [result |-> l.result, size |-> l.item_size])
                /\ Goto(t, "152", l)
                /\ UNCHANGED << access_times, current_size >>
         [] ct_pc[t] = "152" ->
                /\ access_times' = SetTime(access_times, k, now)
                /\ Goto(t, "153r", l)
                /\ UNCHANGED << cache, current_size >>
         [] ct_pc[t] = "153r" ->
                /\ Goto(t, "153w", [l EXCEPT !.tmp = current_size])
                /\ UNCHANGED << cache, access_times, current_size >>
         [] ct_pc[t] = "153w" ->
                /\ current_size' = l.tmp + l.item_size
                /\ Return(t)
                /\ UNCHANGED << cache, access_times >>
    /\ UNCHANGED << ct_calls, enabled, now, stored_by, last,
                    rmVars, batchVars, resizeVars, notCacheThreads >>

CacheThreadsNext ==
    \/ \E t \in Threads, req \in ThreadRequests : thread_get(t, req)
    \/ \E t \in Threads, req \in ThreadRequests, result \in ThreadResults : thread_put(t, req, result)
    \/ \E t \in Threads : cache_thread_step(t)

\* The keys of the access_times map.
TimeKeys == { access_times[i].key : i \in 1..Len(access_times) }

\* C17: under any interleaving of put and get calls from different threads no
\* call fails because another call removed or inserted an entry in between,
\* and once all calls have returned current_size is the sum of the sizes of
\* the stored entries and cache and access_times hold the same keys.
CacheMutationsSerialized ==
    /\ ct_error = "None"
    /\ (\A t \in Threads : ct_pc[t] = "idle") =>
          /\ current_size = SumSizes(cache, DOMAIN cache)
          /\ DOMAIN cache = TimeKeys

(***************************************************************************)
(* process_with_timeout: asyncio.wait_for around a coroutine.              *)
(***************************************************************************)
\* The wrapped coroutines: the number of times each suspends (awaits) before
\* it returns; and the timeouts, in clock ticks.
Works == 0..MaxWork
Timeouts == 1..MaxTimeout

TimeoutInit ==
    /\ wf_pc = "none"
    /\ wf_timeout = 0
    /\ wf_elapsed = 0
    /\ op_pc = "none"
    /\ op_left = 0
    /\ op_cancel = "none"

\* process_with_timeout(coro, timeout) is called: wait_for schedules the
\* timer, wraps the coroutine in a task and waits.
process_with_timeout(work, timeout) ==
    /\ wf_pc # "waiting"
    /\ wf_pc # "cancelling"
    /\ wf_pc' = "waiting"
    /\ wf_timeout' = timeout
    /\ wf_elapsed' = 0
    /\ op_pc' = "created"
    /\ op_left' = work
    /\ op_cancel' = "none"
    /\ UNCHANGED << cacheVars, rmVars, batchVars, resizeVars, notTimeout >>

\* Time passes while the call is in progress.
elapse ==
    /\ wf_pc \in {"waiting", "cancelling"}
    /\ wf_elapsed < MaxElapsed
    /\ wf_elapsed' = wf_elapsed + 1
    /\ UNCHANGED << wf_pc, wf_timeout, op_pc, op_left, op_cancel,
                    cacheVars, rmVars, batchVars, resizeVars, notTimeout >>

\* The event loop runs the wrapped coroutine up to its next suspension or
\* to its return. A task whose cancellation was requested is resumed with
\* CancelledError instead, which ends it.
operation_step ==
    /\ op_pc \in {"created", "running"}
    /\ IF op_cancel = "requested"
       THEN /\ op_pc' = "cancelled"
            /\ op_cancel' = "delivered"
            /\ UNCHANGED op_left
       ELSE IF op_left = 0
       THEN /\ op_pc' = "done"
            /\ UNCHANGED << op_left, op_cancel >>
       ELSE /\ op_pc' = "running"
            /\ op_left' = op_left - 1
            /\ UNCHANGED op_cancel
    /\ UNCHANGED << wf_pc, wf_timeout, wf_elapsed,
                    cacheVars, rmVars, batchVars, resizeVars, notTimeout >>

\* The timer of wait_for fires and the waiting wait_for runs again: a task
\* that is done gives its result; otherwise wait_for cancels the task
\* (fut.cancel) and waits for the cancellation to finish. The task has had
\* its first run by then: the loop runs what is ready before any timer.
timer_fires ==
    /\ wf_pc = "waiting"
    /\ op_pc # "created"
    /\ wf_elapsed >= wf_timeout
    /\ IF op_pc = "done"
       THEN /\ wf_pc' = "returned"
            /\ UNCHANGED op_cancel
       ELSE /\ wf_pc' = "cancelling"
            /\ op_cancel' = "requested"
    /\ UNCHANGED << wf_timeout, wf_elapsed, op_pc, op_left,
                    cacheVars, rmVars, batchVars, resizeVars, notTimeout >>

\* The task is done before the timer fires: wait_for returns its result.
operation_done ==
    /\ wf_pc = "waiting"
    /\ op_pc = "done"
    /\ wf_pc' = "returned"
    /\ UNCHANGED << wf_timeout, wf_elapsed, op_pc, op_left, op_cancel,
                    cacheVars, rmVars, batchVars, resizeVars, notTimeout >>

\* The cancelled task has ended: wait_for raises asyncio.TimeoutError, which
\* process_with_timeout turns into TimeoutError for its caller.
raise_timeout ==
    /\ wf_pc = "cancelling"
    /\ op_pc = "cancelled"
    /\ wf_pc' = "TimeoutError"
    /\ UNCHANGED << wf_timeout, wf_elapsed, op_pc, op_left, op_cancel,
                    cacheVars, rmVars, batchVars, resizeVars, notTimeout >>

TimeoutNext ==
    \/ \E work \in Works, timeout \in Timeouts : process_with_timeout(work, timeout)
    \/ elapse
    \/ operation_step
    \/ timer_fires
    \/ operation_done
    \/ raise_timeout

\* C19: when process_with_timeout reports a timeout to its caller, the
\* wrapped operation has received no cancellation signal and is still
\* running or has run to completion.
TimeoutDoesNotCancel ==
    wf_pc = "TimeoutError" => (op_cancel = "none" /\ op_pc \in {"running", "done"})

(***************************************************************************)
(* Several BatchProcessor instances at work at the same time.              *)
(***************************************************************************)
\* The BatchProcessor instances, each constructed with the default
\* max_workers = MAX_CONCURRENT_TASKS and so each with a thread pool of its
\* own; their process_batch calls run in different threads.
Processors == 1..MaxProcessors

PoolsInit ==
    /\ bp_pc = [p \in Processors |-> "idle"]
    /\ bp_queued = [p \in Processors |-> 0]
    /\ bp_running = [p \in Processors |-> 0]
    /\ bp_finished = [p \in Processors |-> 0]

\* process_batch of instance p is called with n tasks: all of them are
\* submitted to the instance's executor. resource_manager is not asked.
pool_batch(p, n) ==
    /\ bp_pc[p] = "idle"
    /\ bp_pc' = [bp_pc EXCEPT ![p] = "collect"]
    /\ bp_queued' = [bp_queued EXCEPT ![p] = n]
    /\ bp_finished' = [bp_finished EXCEPT ![p] = 0]
    /\ UNCHANGED << bp_running, cacheVars, rmVars, batchVars, resizeVars, notPools >>

\* A worker thread of p's executor takes a queued task; the executor has at
\* most its own max_workers threads.
pool_start(p) ==
    /\ bp_queued[p] > 0
    /\ bp_running[p] < MAX_CONCURRENT_TASKS
    /\ bp_queued' = [bp_queued EXCEPT ![p] = bp_queued[p] - 1]
    /\ bp_running' = [bp_running EXCEPT ![p] = bp_running[p] + 1]
    /\ UNCHANGED << bp_pc, bp_finished, cacheVars, rmVars, batchVars, resizeVars, notPools >>

\* A task of p's batch returns or raises in its worker thread.
pool_finish(p) ==
    /\ bp_running[p] > 0
    /\ bp_running' = [bp_running EXCEPT ![p] = bp_running[p] - 1]
    /\ bp_finished' = [bp_finished EXCEPT ![p] = bp_finished[p] + 1]
    /\ UNCHANGED << bp_pc, bp_queued, cacheVars, rmVars, batchVars, resizeVars, notPools >>

\* as_completed has yielded every future of p's batch: process_batch returns.
pool_return(p) ==
    /\ bp_pc[p] = "collect"
    /\ bp_queued[p] = 0
    /\ bp_running[p] = 0
    /\ bp_pc' = [bp_pc EXCEPT ![p] = "idle"]
    /\ UNCHANGED << bp_queued, bp_running, bp_finished,
                    cacheVars, rmVars, batchVars, resizeVars, notPools >>

PoolsNext ==
    \/ \E p \in Processors, n \in 1..MaxElements : pool_batch(p, n)
    \/ \E p \in Processors : pool_start(p)
    \/ \E p \in Processors : pool_finish(p)
    \/ \E p \in Processors : pool_return(p)

\* The batch elements executing at this instant, over all batches in progress.
RECURSIVE RunningUpTo(_)
RunningUpTo(p) == IF p = 0 THEN 0 ELSE bp_running[p] + RunningUpTo(p - 1)
ElementsRunning == RunningUpTo(MaxProcessors)

\* C20: at every instant the number of batch elements executing at the same
\* time, counted over all batch requests in progress, is at most
\* MAX_CONCURRENT_TASKS.
GlobalBatchCeiling == ElementsRunning <= MAX_CONCURRENT_TASKS

(***************************************************************************)
(* The tools: tools/effects.py add_border, tools/color_adjust.py           *)
(* adjust_brightness, and the MCP tool functions of main.py around them    *)
(***************************************************************************)
\* What a tool coroutine of tools/*.py hands back: a JSON envelope, or an
\* exception it did not catch. transformed: the image transform was run.
Envelope(success, error, transformed) ==
    [kind |-> "envelope", success |-> success, error |-> error,
     transformed |-> transformed]
Raised(exception, transformed) ==
    [kind |-> "raised", success |-> FALSE, error |-> exception,
     transformed |-> transformed]
NoReturn == [kind |-> "none", success |-> FALSE, error |-> "", transformed |-> FALSE]
NoToolCall == [tool |-> "none"]

ToolInit ==
    /\ tool_call = NoToolCall
    /\ tool_return = NoReturn
    /\ mcp_return = NoReturn

\* An image source: "empty" (the empty string), "missing" (a path of no
\* file), "corrupt" (a file that is no image) or "valid".
ImageSourceKinds == {"empty", "missing", "corrupt", "valid"}
\* validate_image_source(source)
validate_image_source(source) == source \in {"corrupt", "valid"}
\* ImageProcessor.load_image(source) raises IOError unless it returns an image.
LoadRaises(source) == source # "valid"

\* A numeric argument: a number, or a value that float() does not accept.
Num(v) == [is_num |-> TRUE, v |-> v]
NotANumber == [is_num |-> FALSE, v |-> 0]

\* validate_numeric_range(value, min_val, max_val): a bool, never an exception.
validate_numeric_range(value, min_val, max_val) ==
    value.is_num /\ min_val <= value.v /\ value.v <= max_val

\* The side of the square image of the tests, in pixels.
ImageSide == 100
\* The arguments of add_border.
BorderWidths == { Num(v) : v \in {-60, -5, 1, 100, 101} }
BorderColors == {"#000000", "#GGGGGG"}
CornerRadii == {10, 51}
BorderStyles == {"solid", "rounded", "shadow"}
BorderArguments ==
    [image_source : ImageSourceKinds \ {"empty"}, border_width : BorderWidths,
     border_color : BorderColors, corner_radius : CornerRadii,
     border_style : BorderStyles]

\* validate_color_hex(color), and PIL's ImageColor.getrgb accepting it.
validate_color_hex(color) == color = "#000000"

\* tools/effects.py add_border(arguments). The bools of validate_numeric_range
\* and validate_color_hex are not read. Image.new raises ValueError on a
\* negative size and on a colour it cannot parse.
effects_add_border(args) ==
    IF ~validate_image_source(args.image_source)
    THEN Envelope(FALSE, "ValidationError", FALSE)
    ELSE IF LoadRaises(args.image_source)
    THEN Envelope(FALSE, "IOError", FALSE)
    ELSE LET new_width == ImageSide + 2 * args.border_width.v IN
         IF new_width < 0 \/ ~validate_color_hex(args.border_color)
         THEN Envelope(FALSE, "ValueError", FALSE)
         ELSE Envelope(TRUE, "", TRUE)

\* The arguments of adjust_brightness, and what the imaging backend does
\* with a loaded image: enhance and output_image return or raise.
Factors == {Num(1), Num(5), NotANumber}
BrightnessArguments ==
    [image_source : ImageSourceKinds, factor : Factors,
     enhance : {"ok", "raise"}, output : {"ok", "raise"}]

\* tools/color_adjust.py adjust_brightness(image_source, factor): its only
\* handler is "except ValidationError".
color_adjust_brightness(args) ==
    IF args.image_source = "empty"
    THEN Envelope(FALSE, "ValidationError", FALSE)
    ELSE IF ~validate_numeric_range(args.factor, 0, 2)
    THEN Envelope(FALSE, "ValidationError", FALSE)
    ELSE IF LoadRaises(args.image_source)
    THEN Raised("IOError", FALSE)
    ELSE IF args.enhance = "raise"
    THEN Raised("ValueError", FALSE)
    ELSE IF args.output = "raise"
    THEN Raised("IOError", TRUE)
    ELSE Envelope(TRUE, "", TRUE)

\* The exceptions a handler "except Exception" of main.py catches.
CatchesValidationErrorOnly(exception) == exception = "ValidationError"
CatchesException(exception) == TRUE

\* A tool function of main.py: result = safe_run_async(coro) hands back what
\* the coroutine returned or raises what it raised, on either of its two
\* paths; return result[0].text; except Exception: the failure envelope.
McpTool(inner) ==
    IF inner.kind = "raised"
    THEN IF CatchesException(inner.error)
         THEN Envelope(FALSE, inner.error, inner.transformed)
         ELSE inner
    ELSE inner

\* main.py add_border -> tools/effects.py add_border
add_border(args) ==
    /\ tool_call' = [tool |-> "add_border", args |-> args]
    /\ tool_return' = effects_add_border(args)
    /\ mcp_return' = McpTool(effects_add_border(args))
    /\ UNCHANGED << cacheVars, rmVars, batchVars, resizeVars, notTool >>

\* main.py adjust_brightness -> tools/color_adjust.py adjust_brightness
adjust_brightness(args) ==
    /\ tool_call' = [tool |-> "adjust_brightness", args |-> args]
    /\ tool_return' = color_adjust_brightness(args)
    /\ mcp_return' = McpTool(color_adjust_brightness(args))
    /\ UNCHANGED << cacheVars, rmVars, batchVars, resizeVars, notTool >>

ToolNext ==
    \/ \E args \in BorderArguments : add_border(args)
    \/ \E args \in BrightnessArguments : adjust_brightness(args)

\* C14: an operation called with a numeric parameter outside its declared
\* [min, max] (add_border with a border_width outside 1..100, everything else
\* valid) returns the failure envelope with success false and does not run
\* the image transform.
OutOfRangeRejected ==
    (/\ tool_call.tool = "add_border"
     /\ tool_call.args.image_source = "valid"
     /\ validate_color_hex(tool_call.args.border_color)
     /\ ~validate_numeric_range(tool_call.args.border_width, 1, 100)) =>
        /\ tool_return.kind = "envelope"
        /\ tool_return.success = FALSE
        /\ tool_return.transformed = FALSE

\* C15: every tool call, whether validation, image loading, the transform or
\* the output fails, returns one JSON envelope, success true or success false
\* with an error; no failure is raised to the caller of the tool.
NoExceptionCrosses ==
    tool_call # NoToolCall =>
        /\ mcp_return.kind = "envelope"
        /\ mcp_return.success \/ mcp_return.error # ""

\* The coroutine of a tool raised and the tool returned the failure envelope.
NoExceptionCrossesWitness ==
    /\ tool_call # NoToolCall
    /\ tool_return.kind = "raised"
    /\ mcp_return.kind = "envelope"
    /\ ~mcp_return.success
    /\ mcp_return.error = "IOError"

(***************************************************************************)
(* The specifications: one per component, the other components untouched.  *)
(***************************************************************************)
Init == CacheInit /\ RMInit /\ BatchInit /\ ResizeInit /\ MonitorInit /\ ToolInit
        /\ ThreadInit /\ CacheThreadInit
        /\ TimeoutInit /\ PoolsInit /\ TrackedInit

SpecCache == Init /\ [][CacheNext]_vars

SpecRM == Init /\ [][RMNext]_vars

SpecBatch == Init /\ [][BatchNext]_vars

SpecResize == Init /\ [][ResizeNext]_vars

SpecMonitor == Init /\ [][MonitorNext]_vars

SpecPerf == Init /\ [][PerfNext]_vars

SpecTool == Init /\ [][ToolNext]_vars

SpecMonThreads == Init /\ [][MonThreadsNext]_vars

SpecRMFair == Init /\ [][RMNext]_vars /\ RMFairness
SpecRMLoose == Init /\ [][RMLooseNext]_vars

SpecCacheThreads == Init /\ [][CacheThreadsNext]_vars

SpecCacheFlag == Init /\ [][CacheFlagNext]_vars

SpecTimeout == Init /\ [][TimeoutNext]_vars

SpecPools == Init /\ [][PoolsNext]_vars

====
